---- MODULE Spec2Model ----
(***************************************************************************)
(* Model of uptime_analyzer (src/main.py).                                 *)
(*                                                                         *)
(* Spec      : one run of query_uptime_logs_with_temp_container, i.e. the  *)
(*             generator temp_postgres_container wrapped around            *)
(*             query_uptime_logs_from_backup.  Every external command      *)
(*             (socket, docker, psycopg, requests, file write) is a step   *)
(*             whose outcome is chosen nondeterministically.               *)
(* SpecPlots : one run of plots over the records returned by read_logs.    *)
(* SpecParse : one run of read_logs over a text.                           *)
(* SpecPorts : two concurrent invocations of temp_postgres_container with  *)
(*             port unset, from the port allocation to the teardown.       *)
(***************************************************************************)
EXTENDS Integers, Sequences, FiniteSets, TLC

VARIABLES
    pc,            \* position of the run inside the pipeline
    portArg,       \* the `port` keyword argument (None or a port)
    port,          \* local `port` of temp_postgres_container
    container_id,  \* local `container_id` (None until docker run exits 0)
    retry_count,   \* local `retry_count` of the readiness loop
    container,     \* docker-side state of the named container
    yielded,       \* the generator reached its `yield`
    saved,         \* the dump file under backups/ has been written
    dbExists,      \* the working database exists on the server
    df,            \* local `df` of query_uptime_logs_from_backup
    exc,           \* exception in flight (None when there is none)
    outcome,       \* how the call ended: "none", "returned", "raised"
    result,        \* value returned to the caller
    warned,        \* teardown printed "Warning: Failed to clean up ..."
    cleanedMsg,    \* teardown printed "Container cleaned up successfully"
    trace,         \* the external steps issued so far, with their outcomes
    ppc,           \* position inside plots
    records,       \* what read_logs returned (list of records)
    logs,          \* the DataFrame `logs` after sort and test-user filter
    userQueue,     \* users still to be visited by the per-user loop
    streaks,       \* per visited user: running_streak and counts (or error)
    perr,          \* exception that ended plots (None when there is none)
    rpc,           \* position inside read_logs
    text,          \* the text read_logs reads, a sequence of characters
    lineQueue,     \* lines of `text` the loop of read_logs has yet to visit
    parsed,        \* local `records` of read_logs
    rerr,          \* exception that ended read_logs (None when none)
    cpc,           \* per concurrent invocation: position in provisioning
    sock,          \* per invocation: port its probe socket is bound to
    cport,         \* per invocation: its local `port`
    started        \* per invocation: its container holds the host port

pipeVars == <<pc, portArg, port, container_id, retry_count, container,
              yielded, saved, dbExists, df, exc, outcome, result, warned,
              cleanedMsg, trace>>
plotVars == <<ppc, records, logs, userQueue, streaks, perr>>
parseVars == <<rpc, text, lineQueue, parsed, rerr>>
allocVars == <<cpc, sock, cport, started>>
vars == <<pipeVars, plotVars, parseVars, allocVars>>

None == "None"

\* the value None of the integer-valued `port`
NoPort == 0

----------------------------------------------------------------------------
(* Bounds and program constants *)

\* number of distinct host ports the model distinguishes
MaxPort == 2
Ports == 1..MaxPort

\* max_retries of the readiness loop
max_retries == 30

\* longest list of log records given to plots
MaxLogs == 5

----------------------------------------------------------------------------
(* Helpers shared by the pipeline steps *)

\* one entry of `trace`: the external operation and how it ended
Step(op, res) == [op |-> op, res |-> res]

\* the steps of the pipeline proper (everything but the teardown block)
PipelineOps == {"alloc_port", "docker_check", "docker_run", "probe", "fetch",
                "stage", "create_db", "restore", "query", "drop_db"}
TeardownOps == {"teardown", "docker_stop", "docker_rm"}

\* number of entries of `trace` whose operation is op
RECURSIVE CountOp(_, _)
CountOp(t, op) ==
    IF t = <<>> THEN 0
    ELSE (IF Head(t).op = op THEN 1 ELSE 0) + CountOp(Tail(t), op)

\* some entry of the trace is (op, res)
Did(op, res) == \E i \in 1..Len(trace) : trace[i] = Step(op, res)
Issued(op) == \E i \in 1..Len(trace) : trace[i].op = op

----------------------------------------------------------------------------
(* temp_postgres_container: provisioning *)

\* lines 86-93: pick a free port by bind/getsockname/close, outside the try
AllocatePort ==
    /\ pc = "alloc"
    /\ \/ /\ portArg # NoPort
          /\ pc' = "docker_check"
          /\ UNCHANGED <<port, exc, outcome, trace>>
       \/ /\ portArg = NoPort
          /\ \E p \in Ports : port' = p
          /\ pc' = "docker_check"
          /\ trace' = Append(trace, Step("alloc_port", "ok"))
          /\ UNCHANGED <<exc, outcome>>
       \/ \* socket()/bind() raises OSError: not inside the try, no finally
          /\ portArg = NoPort
          /\ exc' = "PortAlloc"
          /\ outcome' = "raised"
          /\ pc' = "done"
          /\ trace' = Append(trace, Step("alloc_port", "raise"))
          /\ UNCHANGED port
    /\ UNCHANGED <<portArg, container_id, retry_count, container, yielded,
                   saved, dbExists, df, result, warned, cleanedMsg>>
    /\ UNCHANGED <<plotVars, parseVars, allocVars>>

\* lines 97-103 with the check outside the try block
DockerCheckNoFinally ==
    /\ pc = "docker_check"
    /\ \/ /\ pc' = "docker_run"
          /\ trace' = Append(trace, Step("docker_check", "ok"))
          /\ UNCHANGED <<exc, outcome>>
       \/ /\ exc' = "RuntimeUnavailable"
          /\ outcome' = "raised"
          /\ pc' = "done"
          /\ trace' = Append(trace, Step("docker_check", "nonzero"))
       \/ /\ exc' = "DockerCheckExec"
          /\ outcome' = "raised"
          /\ pc' = "done"
          /\ trace' = Append(trace, Step("docker_check", "raise"))
    /\ UNCHANGED <<portArg, port, container_id, retry_count, container,
                   yielded, saved, dbExists, df, result, warned,
                   cleanedMsg>>
    /\ UNCHANGED <<plotVars, parseVars, allocVars>>

\* lines 97-103: `docker --version`
DockerCheck ==
    /\ pc = "docker_check"
    /\ \/ /\ pc' = "docker_run"
          /\ trace' = Append(trace, Step("docker_check", "ok"))
          /\ UNCHANGED exc
       \/ \* returncode != 0 -> RuntimeError
          /\ exc' = "RuntimeUnavailable"
          /\ pc' = "finally"
          /\ trace' = Append(trace, Step("docker_check", "nonzero"))
       \/ \* subprocess.run itself raises (no docker binary)
          /\ exc' = "DockerCheckExec"
          /\ pc' = "finally"
          /\ trace' = Append(trace, Step("docker_check", "raise"))
    /\ UNCHANGED <<portArg, port, container_id, retry_count, container,
                   yielded, saved, dbExists, df, outcome, result, warned,
                   cleanedMsg>>
    /\ UNCHANGED <<plotVars, parseVars, allocVars>>

\* lines 106-127 without the returncode test of lines 123-124
DockerRunUnchecked ==
    /\ pc = "docker_run"
    /\ \/ /\ container_id' = "cid"
          /\ container' = "running"
          /\ pc' = "probe"
          /\ trace' = Append(trace, Step("docker_run", "ok"))
          /\ UNCHANGED exc
       \/ /\ \E c \in {"none", "created"} : container' = c
          /\ container_id' = ""
          /\ pc' = "probe"
          /\ trace' = Append(trace, Step("docker_run", "nonzero"))
          /\ UNCHANGED exc
       \/ /\ exc' = "DockerRunExec"
          /\ pc' = "finally"
          /\ trace' = Append(trace, Step("docker_run", "raise"))
          /\ UNCHANGED <<container_id, container>>
    /\ UNCHANGED <<portArg, port, retry_count, yielded, saved, dbExists, df,
                   outcome, result, warned, cleanedMsg>>
    /\ UNCHANGED <<plotVars, parseVars, allocVars>>

\* lines 106-127: `docker run -d --name ... -p port:5432 image`
DockerRun ==
    /\ pc = "docker_run"
    /\ \/ /\ container_id' = "cid"
          /\ container' = "running"
          /\ pc' = "probe"
          /\ trace' = Append(trace, Step("docker_run", "ok"))
          /\ UNCHANGED exc
       \/ \* returncode != 0: nothing created, or created but not started
          /\ \E c \in {"none", "created"} : container' = c
          /\ exc' = "ProvisionFailed"
          /\ pc' = "finally"
          /\ trace' = Append(trace, Step("docker_run", "nonzero"))
          /\ UNCHANGED container_id
       \/ /\ exc' = "DockerRunExec"
          /\ pc' = "finally"
          /\ trace' = Append(trace, Step("docker_run", "raise"))
          /\ UNCHANGED <<container_id, container>>
    /\ UNCHANGED <<portArg, port, retry_count, yielded, saved, dbExists, df,
                   outcome, result, warned, cleanedMsg>>
    /\ UNCHANGED <<plotVars, parseVars, allocVars>>

\* lines 134-150 with `>` in place of `>=` in the budget test
ProbeOffByOne ==
    /\ pc = "probe"
    /\ \/ /\ yielded' = TRUE
          /\ pc' = "fetch"
          /\ trace' = Append(trace, Step("probe", "ok"))
          /\ UNCHANGED <<retry_count, exc>>
       \/ /\ retry_count' = retry_count + 1
          /\ trace' = Append(trace, Step("probe", "connerr"))
          /\ IF retry_count' > max_retries
             THEN exc' = "ProvisionTimeout" /\ pc' = "finally"
                  /\ UNCHANGED yielded
             ELSE IF retry_count' < max_retries
                  THEN UNCHANGED <<exc, pc, yielded>>
                  ELSE yielded' = TRUE /\ pc' = "fetch" /\ UNCHANGED exc
       \/ /\ exc' = "ProbeError"
          /\ pc' = "finally"
          /\ trace' = Append(trace, Step("probe", "raise"))
          /\ UNCHANGED <<retry_count, yielded>>
    /\ UNCHANGED <<portArg, port, container_id, container, saved, dbExists,
                   df, outcome, result, warned, cleanedMsg>>
    /\ UNCHANGED <<plotVars, parseVars, allocVars>>

\* lines 134-160: one iteration of the readiness loop; a successful probe
\* breaks out of the loop and the generator yields the connection info
Probe ==
    /\ pc = "probe"
    /\ \/ /\ yielded' = TRUE
          /\ pc' = "fetch"
          /\ trace' = Append(trace, Step("probe", "ok"))
          /\ UNCHANGED <<retry_count, exc>>
       \/ \* OperationalError / InterfaceError
          /\ retry_count' = retry_count + 1
          /\ trace' = Append(trace, Step("probe", "connerr"))
          /\ IF retry_count' >= max_retries
             THEN exc' = "ProvisionTimeout" /\ pc' = "finally"
             ELSE UNCHANGED <<exc, pc>>
          /\ UNCHANGED yielded
       \/ \* any other exception is not caught by the loop
          /\ exc' = "ProbeError"
          /\ pc' = "finally"
          /\ trace' = Append(trace, Step("probe", "raise"))
          /\ UNCHANGED <<retry_count, yielded>>
    /\ UNCHANGED <<portArg, port, container_id, container, saved, dbExists,
                   df, outcome, result, warned, cleanedMsg>>
    /\ UNCHANGED <<plotVars, parseVars, allocVars>>

----------------------------------------------------------------------------
(* query_uptime_logs_from_backup: the body of the with statement.  An      *)
(* exception of the body is thrown into the generator at its yield, so the *)
(* run continues in the finally block.                                     *)

\* lines 247-249 followed directly by the CREATE DATABASE step
FetchSkipStage ==
    /\ pc = "fetch"
    /\ \/ /\ pc' = "create_db"
          /\ trace' = Append(trace, Step("fetch", "ok"))
          /\ UNCHANGED exc
       \/ /\ exc' = "FetchFailed"
          /\ pc' = "finally"
          /\ trace' = Append(trace, Step("fetch", "raise"))
    /\ UNCHANGED <<portArg, port, container_id, retry_count, container,
                   yielded, saved, dbExists, df, outcome, result, warned,
                   cleanedMsg>>
    /\ UNCHANGED <<plotVars, parseVars, allocVars>>

\* lines 247-249: requests.get(backup_url)
Fetch ==
    /\ pc = "fetch"
    /\ \/ /\ pc' = "stage"
          /\ trace' = Append(trace, Step("fetch", "ok"))
          /\ UNCHANGED exc
       \/ /\ exc' = "FetchFailed"
          /\ pc' = "finally"
          /\ trace' = Append(trace, Step("fetch", "raise"))
    /\ UNCHANGED <<portArg, port, container_id, retry_count, container,
                   yielded, saved, dbExists, df, outcome, result, warned,
                   cleanedMsg>>
    /\ UNCHANGED <<plotVars, parseVars, allocVars>>

\* lines 251-255: mkdir backups, open the timestamped file, write the text
Stage ==
    /\ pc = "stage"
    /\ \/ /\ saved' = TRUE
          /\ pc' = "create_db"
          /\ trace' = Append(trace, Step("stage", "ok"))
          /\ UNCHANGED exc
       \/ /\ exc' = "StageFailed"
          /\ pc' = "finally"
          /\ trace' = Append(trace, Step("stage", "raise"))
          /\ UNCHANGED saved
    /\ UNCHANGED <<portArg, port, container_id, retry_count, container,
                   yielded, dbExists, df, outcome, result, warned,
                   cleanedMsg>>
    /\ UNCHANGED <<plotVars, parseVars, allocVars>>

\* lines 257-265 with a failure of CREATE DATABASE caught and ignored
CreateDatabaseIgnoreFailure ==
    /\ pc = "create_db"
    /\ \/ /\ dbExists' = TRUE
          /\ trace' = Append(trace, Step("create_db", "ok"))
       \/ /\ trace' = Append(trace, Step("create_db", "raise"))
          /\ UNCHANGED dbExists
    /\ pc' = "restore"
    /\ UNCHANGED <<portArg, port, container_id, retry_count, container,
                   yielded, saved, df, exc, outcome, result, warned,
                   cleanedMsg>>
    /\ UNCHANGED <<plotVars, parseVars, allocVars>>

\* lines 257-265: connect to "postgres" and CREATE DATABASE temp_db_name
CreateDatabase ==
    /\ pc = "create_db"
    /\ \/ /\ dbExists' = TRUE
          /\ pc' = "restore"
          /\ trace' = Append(trace, Step("create_db", "ok"))
          /\ UNCHANGED exc
       \/ /\ exc' = "CreateFailed"
          /\ pc' = "finally"
          /\ trace' = Append(trace, Step("create_db", "raise"))
          /\ UNCHANGED dbExists
    /\ UNCHANGED <<portArg, port, container_id, retry_count, container,
                   yielded, saved, df, outcome, result, warned, cleanedMsg>>
    /\ UNCHANGED <<plotVars, parseVars, allocVars>>

\* lines 267-272 without check=True: a non-zero exit raises nothing
RestoreUnchecked ==
    /\ pc = "restore"
    /\ \/ /\ pc' = "query"
          /\ trace' = Append(trace, Step("restore", "ok"))
          /\ UNCHANGED exc
       \/ /\ pc' = "query"
          /\ trace' = Append(trace, Step("restore", "nonzero"))
          /\ UNCHANGED exc
       \/ /\ exc' = "RestoreExec"
          /\ pc' = "finally"
          /\ trace' = Append(trace, Step("restore", "raise"))
    /\ UNCHANGED <<portArg, port, container_id, retry_count, container,
                   yielded, saved, dbExists, df, outcome, result, warned,
                   cleanedMsg>>
    /\ UNCHANGED <<plotVars, parseVars, allocVars>>

\* lines 267-272: docker exec -i ... psql, input = dump bytes, check=True
Restore ==
    /\ pc = "restore"
    /\ \/ /\ pc' = "query"
          /\ trace' = Append(trace, Step("restore", "ok"))
          /\ UNCHANGED exc
       \/ \* non-zero exit -> CalledProcessError
          /\ exc' = "RestoreFailed"
          /\ pc' = "finally"
          /\ trace' = Append(trace, Step("restore", "nonzero"))
       \/ /\ exc' = "RestoreExec"
          /\ pc' = "finally"
          /\ trace' = Append(trace, Step("restore", "raise"))
    /\ UNCHANGED <<portArg, port, container_id, retry_count, container,
                   yielded, saved, dbExists, df, outcome, result, warned,
                   cleanedMsg>>
    /\ UNCHANGED <<plotVars, parseVars, allocVars>>

\* lines 274-291 with the DROP DATABASE in a finally clause of the query
QueryDropOnFailure ==
    /\ pc = "query"
    /\ \/ /\ df' = "rows"
          /\ pc' = "drop_db"
          /\ trace' = Append(trace, Step("query", "ok"))
          /\ UNCHANGED <<exc, dbExists>>
       \/ /\ exc' = "QueryFailed"
          /\ pc' = "finally"
          /\ dbExists' = FALSE
          /\ trace' = Append(Append(trace, Step("query", "raise")),
                             Step("drop_db", "ok"))
          /\ UNCHANGED df
    /\ UNCHANGED <<portArg, port, container_id, retry_count, container,
                   yielded, saved, outcome, result, warned, cleanedMsg>>
    /\ UNCHANGED <<plotVars, parseVars, allocVars>>

\* lines 274-281: connect to the working database, pd.read_sql_query
Query ==
    /\ pc = "query"
    /\ \/ /\ df' = "rows"
          /\ pc' = "drop_db"
          /\ trace' = Append(trace, Step("query", "ok"))
          /\ UNCHANGED exc
       \/ /\ exc' = "QueryFailed"
          /\ pc' = "finally"
          /\ trace' = Append(trace, Step("query", "raise"))
          /\ UNCHANGED df
    /\ UNCHANGED <<portArg, port, container_id, retry_count, container,
                   yielded, saved, dbExists, outcome, result, warned,
                   cleanedMsg>>
    /\ UNCHANGED <<plotVars, parseVars, allocVars>>

\* lines 283-293: DROP DATABASE temp_db_name, then `return df`
DropDatabase ==
    /\ pc = "drop_db"
    /\ \/ /\ dbExists' = FALSE
          /\ result' = df
          /\ pc' = "finally"
          /\ trace' = Append(trace, Step("drop_db", "ok"))
          /\ UNCHANGED exc
       \/ \* the exception leaves the function; df is never returned
          /\ exc' = "DropFailed"
          /\ pc' = "finally"
          /\ trace' = Append(trace, Step("drop_db", "raise"))
          /\ UNCHANGED <<dbExists, result>>
    /\ UNCHANGED <<portArg, port, container_id, retry_count, container,
                   yielded, saved, df, outcome, warned, cleanedMsg>>
    /\ UNCHANGED <<plotVars, parseVars, allocVars>>

----------------------------------------------------------------------------
(* temp_postgres_container: the finally block *)

\* an except clause that re-raises the cleanup exception
ReraiseCleanupFault(pending, e) == e

\* lines 182-183: `except Exception as e: print(...)` swallows e, so the
\* exception that was in flight when the finally block began stays in flight
AfterCleanupFault(pending, e) == pending

\* lines 162-165: the finally block is entered; container_name is a
\* non-empty string on every path, so the cleanup branch is always taken
Teardown ==
    /\ pc = "finally"
    /\ pc' = "docker_stop"
    /\ trace' = Append(trace, Step("teardown", "ok"))
    /\ UNCHANGED <<portArg, port, container_id, retry_count, container,
                   yielded, saved, dbExists, df, exc, outcome, result,
                   warned, cleanedMsg>>
    /\ UNCHANGED <<plotVars, parseVars, allocVars>>

\* lines 166-173 (and 182-183): `docker stop <name>`, timeout=10, no check
DockerStop ==
    /\ pc = "docker_stop"
    /\ \/ \* exit 0: the container exists and is not running afterwards
          /\ container \in {"running", "created", "exited"}
          /\ container' = IF container = "running" THEN "exited"
                          ELSE container
          /\ pc' = "docker_rm"
          /\ trace' = Append(trace, Step("docker_stop", "ok"))
          /\ UNCHANGED <<exc, warned>>
       \/ \* non-zero exit (no such container, daemon error): not an error
          \* for subprocess.run, the code goes on to docker rm
          /\ pc' = "docker_rm"
          /\ trace' = Append(trace, Step("docker_stop", "nonzero"))
          /\ UNCHANGED <<container, exc, warned>>
       \/ \* TimeoutExpired / OSError: caught, docker rm is skipped; the
          \* daemon may or may not have stopped the container
          /\ \E c \in {container} \cup
                      (IF container = "running" THEN {"exited"} ELSE {}) :
                container' = c
          /\ exc' = AfterCleanupFault(exc, "StopFault")
          /\ warned' = TRUE
          /\ pc' = "exit"
          /\ trace' = Append(trace, Step("docker_stop", "raise"))
    /\ UNCHANGED <<portArg, port, container_id, retry_count, yielded, saved,
                   dbExists, df, outcome, result, cleanedMsg>>
    /\ UNCHANGED <<plotVars, parseVars, allocVars>>

\* lines 174-183: `docker rm <name>` (no -f), timeout=10, no check
DockerRm ==
    /\ pc = "docker_rm"
    /\ \/ \* exit 0: only a container that is not running can be removed
          /\ container \in {"created", "exited"}
          /\ container' = "removed"
          /\ cleanedMsg' = TRUE
          /\ trace' = Append(trace, Step("docker_rm", "ok"))
          /\ UNCHANGED <<exc, warned>>
       \/ \* non-zero exit (still running, no such container, daemon error)
          /\ cleanedMsg' = TRUE
          /\ trace' = Append(trace, Step("docker_rm", "nonzero"))
          /\ UNCHANGED <<container, exc, warned>>
       \/ /\ \E c \in {container} \cup
                      (IF container \in {"created", "exited"}
                       THEN {"removed"} ELSE {}) :
                container' = c
          /\ exc' = AfterCleanupFault(exc, "RmFault")
          /\ warned' = TRUE
          /\ trace' = Append(trace, Step("docker_rm", "raise"))
          /\ UNCHANGED cleanedMsg
    /\ pc' = "exit"
    /\ UNCHANGED <<portArg, port, container_id, retry_count, yielded, saved,
                   dbExists, df, outcome, result>>
    /\ UNCHANGED <<plotVars, parseVars, allocVars>>

\* lines 205-214: the with statement ends; the exception in flight, if any,
\* reaches the caller, otherwise the caller gets the returned DataFrame
Exit ==
    /\ pc = "exit"
    /\ pc' = "done"
    /\ outcome' = IF exc # None THEN "raised" ELSE "returned"
    /\ UNCHANGED <<portArg, port, container_id, retry_count, container,
                   yielded, saved, dbExists, df, exc, result, warned,
                   cleanedMsg, trace>>
    /\ UNCHANGED <<plotVars, parseVars, allocVars>>

----------------------------------------------------------------------------
(* One run of query_uptime_logs_with_temp_container *)

\* the two concurrent invocations of temp_postgres_container
Procs == {1, 2}

ParseIdle ==
    /\ rpc = "idle"
    /\ text = <<>>
    /\ lineQueue = <<>>
    /\ parsed = <<>>
    /\ rerr = None

AllocIdle ==
    /\ cpc = [i \in Procs |-> "idle"]
    /\ sock = [i \in Procs |-> NoPort]
    /\ cport = [i \in Procs |-> NoPort]
    /\ started = [i \in Procs |-> FALSE]

PlotsIdle ==
    /\ ppc = "idle"
    /\ records = <<>>
    /\ logs = <<>>
    /\ userQueue = <<>>
    /\ streaks = <<>>
    /\ perr = None

Init ==
    /\ pc = "alloc"
    /\ portArg \in {NoPort} \cup Ports
    /\ port = portArg
    /\ container_id = None
    /\ retry_count = 0
    /\ container = "none"
    /\ yielded = FALSE
    /\ saved = FALSE
    /\ dbExists = FALSE
    /\ df = None
    /\ exc = None
    /\ outcome = "none"
    /\ result = None
    /\ warned = FALSE
    /\ cleanedMsg = FALSE
    /\ trace = <<>>
    /\ PlotsIdle
    /\ ParseIdle
    /\ AllocIdle

Next ==
    \/ AllocatePort
    \/ DockerCheck
    \/ DockerRun
    \/ Probe
    \/ Fetch
    \/ Stage
    \/ CreateDatabase
    \/ Restore
    \/ Query
    \/ DropDatabase
    \/ Teardown
    \/ DockerStop
    \/ DockerRm
    \/ Exit

Spec == Init /\ [][Next]_vars

----------------------------------------------------------------------------
(* Properties of the pipeline run *)

TeardownPcs == {"docker_stop", "docker_rm", "exit"}

\* the teardown block was entered exactly n times
TeardownRuns(n) == CountOp(trace, "teardown") = n

\* nothing but the teardown's own commands follows the entry of the
\* teardown block
TeardownIsLast ==
    \A i \in 1..Len(trace) : \A j \in 1..Len(trace) :
        (i < j /\ trace[i].op = "teardown")
            => trace[j].op \in {"docker_stop", "docker_rm"}

C2_NoLeak ==
    (pc = "done" /\ Did("docker_run", "ok")) => container = "removed"

\* C3: when the container started and every readiness probe failed with a
\* connectivity error, the loop ends after exactly max_retries attempts with
\* the provisioning-timeout error, the connection info is never yielded and
\* the run ends raised, after the teardown block.
C3_ProbeBudget ==
    /\ CountOp(trace, "probe") <= max_retries
    /\ (/\ Did("docker_run", "ok")
        /\ ~Did("probe", "ok")
        /\ ~Did("probe", "raise")
        /\ pc # "probe")
       => /\ CountOp(trace, "probe") = max_retries
          /\ exc = "ProvisionTimeout"
          /\ ~yielded
          /\ ~Issued("fetch")
          /\ pc \in {"finally", "done"} \cup TeardownPcs
          /\ pc = "done" => (outcome = "raised" /\ TeardownRuns(1))

C3_Witness ==
    /\ pc = "done"
    /\ exc = "ProvisionTimeout"
    /\ CountOp(trace, "probe") = max_retries
    /\ ~Did("probe", "ok")
    /\ TeardownRuns(1)

\* C4: when the query succeeded and DROP DATABASE then failed, the caller
\* still gets the rows of the query and no error.
C4_DropBestEffort ==
    (pc = "done" /\ Did("query", "ok") /\ Did("drop_db", "raise"))
        => (outcome = "returned" /\ result = "rows")

\* C5: a fault of provisioning or of the body is what the caller gets even
\* when docker stop / docker rm fail afterwards: no step of the teardown
\* changes the exception in flight; and a run whose body returned ends
\* returned, with the rows, whatever the teardown commands did.
C5_TeardownNeverOverrides ==
    /\ [][/\ exc # None => exc' = exc
          /\ pc \in TeardownPcs => exc' = exc]_vars
    /\ [](pc = "done" =>
            outcome = (IF exc = None THEN "returned" ELSE "raised"))
    /\ []((pc = "done" /\ Did("drop_db", "ok"))
            => (outcome = "returned" /\ result = "rows" /\ exc = None))

C5_Witness ==
    /\ pc = "done"
    /\ exc = "RestoreFailed"
    /\ outcome = "raised"
    /\ Did("docker_stop", "raise")

\* C6: after a non-zero exit of the restore the failure is reported to the
\* caller as an error, the query is never executed, and the teardown block
\* runs.
C6_RestoreFailure ==
    Did("restore", "nonzero") =>
        /\ exc = "RestoreFailed"
        /\ ~Issued("query")
        /\ df = None
        /\ pc \in {"finally", "done"} \cup TeardownPcs
        /\ pc = "done" => (outcome = "raised" /\ TeardownRuns(1))

C6_Witness ==
    /\ pc = "done"
    /\ Did("restore", "nonzero")
    /\ outcome = "raised"
    /\ dbExists
    /\ TeardownRuns(1)

\* C7: the dump file is written before CREATE DATABASE and the restore are
\* issued, so whenever create, restore, query or drop has been issued (and
\* in particular has failed) the saved copy exists.
C7_StagedBeforeUse ==
    /\ \A j \in 1..Len(trace) :
          trace[j].op \in {"create_db", "restore", "query", "drop_db"}
             => \E i \in 1..(j - 1) : trace[i] = Step("stage", "ok")
    /\ (\E op \in {"create_db", "restore", "query", "drop_db"} : Issued(op))
          => saved

C7_Witness ==
    /\ saved
    /\ \/ Did("create_db", "raise")
       \/ Did("restore", "nonzero")
       \/ Did("query", "raise")
       \/ Did("drop_db", "raise")

----------------------------------------------------------------------------
(* plots: the per-user offline-streak computation *)

Users == {"u1", "u2", "OrenK"}
Status == {"online", "offline"}

\* line 366
test_users == {"OrenK", "Drier"}

\* s without its i-th element
RemoveAt(s, i) == SubSeq(s, 1, i - 1) \o SubSeq(s, i + 1, Len(s))

\* line 365: logs.sort_values(by="readable_timestamp"), ascending
RECURSIVE SortValues(_)
SortValues(d) ==
    IF d = <<>> THEN <<>>
    ELSE LET m == CHOOSE i \in 1..Len(d) :
                     \A j \in 1..Len(d) :
                         \/ d[i].readable_timestamp < d[j].readable_timestamp
                         \/ (d[i].readable_timestamp = d[j].readable_timestamp
                             /\ i <= j)
         IN  <<d[m]>> \o SortValues(RemoveAt(d, m))

\* line 367: logs[~logs["user"].isin(test_users)]
IsRealUser(r) == r.user \notin test_users
DropTestUsers(d) == SelectSeq(d, IsRealUser)

\* line 373: logs["user"].unique(), in order of first appearance
RECURSIVE UniqueUsers(_)
UniqueUsers(d) ==
    IF d = <<>> THEN <<>>
    ELSE LET rest == UniqueUsers(SubSeq(d, 1, Len(d) - 1))
             u == d[Len(d)].user
         IN  IF \E i \in 1..Len(rest) : rest[i] = u THEN rest
             ELSE Append(rest, u)

\* line 374: user_logs = logs[logs["user"] == user]; its status column
RECURSIVE StatusOf(_, _)
StatusOf(d, u) ==
    IF d = <<>> THEN <<>>
    ELSE (IF Head(d).user = u THEN <<Head(d).status>> ELSE <<>>)
         \o StatusOf(Tail(d), u)

\* line 384: cond = user_logs["status"].eq("offline")
Cond(status) == [i \in 1..Len(status) |-> status[i] = "offline"]

\* line 387 with every row in one group: a cumsum over the whole column,
\* as line 376 computes the accumulated disconnects
GrpSingle(cond) == [i \in 1..Len(cond) |-> 1]

\* line 387: grp = (cond != cond.shift()).cumsum(); the first element
\* differs from the NaN shifted in, so the first run is numbered 1
RECURSIVE Grp(_)
Grp(cond) ==
    IF cond = <<>> THEN <<>>
    ELSE LET n == Len(cond)
             before == Grp(SubSeq(cond, 1, n - 1))
         IN  IF n = 1 THEN <<1>>
             ELSE Append(before,
                         before[n - 1]
                           + (IF cond[n] # cond[n - 1] THEN 1 ELSE 0))

\* line 390 with transform("sum") in place of cumsum(): every row gets the
\* number of True rows of its whole group
RunningStreakTotal(cond, grp) ==
    [i \in 1..Len(cond) |->
        Cardinality({j \in 1..Len(cond) : grp[j] = grp[i] /\ cond[j]})]

\* line 390: running_streak = cond.groupby(grp).cumsum().astype(int):
\* at each row, the number of True rows of its group up to that row
RunningStreak(cond, grp) ==
    [i \in 1..Len(cond) |->
        Cardinality({j \in 1..i : grp[j] = grp[i] /\ cond[j]})]

\* line 391: running_streak.value_counts(): value -> number of rows
ValueCounts(s) ==
    [v \in {s[i] : i \in 1..Len(s)} |->
        Cardinality({i \in 1..Len(s) : s[i] = v})]

\* line 391: .drop(0) raises KeyError when the label 0 is not in the index
Drop0(vc) ==
    IF 0 \in DOMAIN vc
    THEN [err |-> None, counts |-> [v \in DOMAIN vc \ {0} |-> vc[v]]]
    ELSE [err |-> "KeyError", counts |-> None]

\* lines 383-391 for one user's status column
OfflineStreaks(status) ==
    LET cond == Cond(status)
        grp == Grp(cond)
    IN  Drop0(ValueCounts(RunningStreak(cond, grp)))

\* lines 364-370: read the logs, sort, drop the test users; a DataFrame
\* built from an empty list of records has no columns, so sort_values
\* raises KeyError on it
PlotsLoad ==
    /\ ppc = "start"
    /\ IF records = <<>>
       THEN /\ perr' = "KeyError"
            /\ ppc' = "done"
            /\ UNCHANGED <<logs, userQueue>>
       ELSE /\ logs' = DropTestUsers(SortValues(records))
            /\ userQueue' = UniqueUsers(logs')
            /\ ppc' = "loop"
            /\ UNCHANGED perr
    /\ UNCHANGED <<records, streaks>>
    /\ UNCHANGED <<pipeVars, parseVars, allocVars>>

\* lines 373-398: one iteration of the per-user loop
PlotsUser ==
    /\ ppc = "loop"
    /\ userQueue # <<>>
    /\ LET user == Head(userQueue)
           status == StatusOf(logs, user)
           r == OfflineStreaks(status)
       IN  /\ streaks' = Append(streaks,
                  [user |-> user,
                   running_streak |->
                       RunningStreak(Cond(status), Grp(Cond(status))),
                   err |-> r.err,
                   counts |-> r.counts])
           /\ IF r.err # None
              THEN perr' = r.err /\ ppc' = "done" /\ UNCHANGED userQueue
              ELSE userQueue' = Tail(userQueue) /\ UNCHANGED <<perr, ppc>>
    /\ UNCHANGED <<records, logs>>
    /\ UNCHANGED <<pipeVars, parseVars, allocVars>>

\* line 373: the loop is exhausted
PlotsEnd ==
    /\ ppc = "loop"
    /\ userQueue = <<>>
    /\ ppc' = "done"
    /\ UNCHANGED <<records, logs, userQueue, streaks, perr>>
    /\ UNCHANGED <<pipeVars, parseVars, allocVars>>

PipelineIdle ==
    /\ pc = "idle"
    /\ portArg = NoPort
    /\ port = NoPort
    /\ container_id = None
    /\ retry_count = 0
    /\ container = "none"
    /\ yielded = FALSE
    /\ saved = FALSE
    /\ dbExists = FALSE
    /\ df = None
    /\ exc = None
    /\ outcome = "none"
    /\ result = None
    /\ warned = FALSE
    /\ cleanedMsg = FALSE
    /\ trace = <<>>

\* the list of n records of distinct timestamps, stored oldest first
\* ("asc") or newest first ("desc"), whose i-th record has user f[i][1] and
\* status f[i][2]
LogInput(n, order, f) ==
    [i \in 1..n |->
        [readable_timestamp |-> IF order = "asc" THEN i ELSE n + 1 - i,
         user |-> f[i][1],
         status |-> f[i][2]]]

\* plots starts on any list of records read_logs can return
InitPlots ==
    /\ ppc = "start"
    /\ \E n \in 0..MaxLogs : \E order \in {"asc", "desc"} :
          \E f \in [1..n -> Users \X Status] :
              records = LogInput(n, order, f)
    /\ logs = <<>>
    /\ userQueue = <<>>
    /\ streaks = <<>>
    /\ perr = None
    /\ PipelineIdle
    /\ ParseIdle
    /\ AllocIdle

NextPlots ==
    \/ PlotsLoad
    \/ PlotsUser
    \/ PlotsEnd

SpecPlots == InitPlots /\ [][NextPlots]_vars

----------------------------------------------------------------------------
(* Properties of plots *)

\* the status column of the user of entry e of `streaks`
EntryStatus(e) == StatusOf(logs, e.user)

AllOffline(s) == Len(s) >= 1 /\ \A i \in 1..Len(s) : s[i] = "offline"

\* C8: for a user whose N >= 1 events are all offline, the streak
\* computation returns exactly the mapping {N: 1}.
C8_SingleRun ==
    \A k \in 1..Len(streaks) :
        AllOffline(EntryStatus(streaks[k]))
            => /\ streaks[k].err = None
               /\ streaks[k].counts = [v \in {Len(EntryStatus(streaks[k]))}
                                          |-> 1]

\* C9: for the status sequence online, offline, offline, online, offline
\* the streak computation returns exactly {1: 1, 2: 1}.
C9_Example ==
    \A k \in 1..Len(streaks) :
        EntryStatus(streaks[k])
              = <<"online", "offline", "offline", "online", "offline">>
            => /\ streaks[k].err = None
               /\ streaks[k].counts = [v \in {1, 2} |-> 1]

\* C10: when there are no log records, or none for a user, plots ends
\* without an error.
C10_EmptyIsNoError ==
    (ppc = "done" /\ (records = <<>> \/ logs = <<>>)) => perr = None

----------------------------------------------------------------------------
(* read_logs.  A text is a sequence of characters; the literals "online"   *)
(* and "offline" are kept as single elements, which is exact for split,    *)
(* slicing and the regular expression as long as no other character of     *)
(* the alphabet is a letter of the two keywords.                           *)

SP == " "
TAB == "\t"
NL == "\n"
Keywords == {"online", "offline"}

\* most lines in a text, most words in the free-text ISP of a line
MaxLines == 2
MaxIspWords == 2

\* s[from..] as Python's s[from-1:]: empty when from is past the end
DropFirst(s, k) == SubSeq(s, k + 1, Len(s))

\* s.split(sep)[0]: the characters before the first sep (all of s if none)
FirstField(s, sep) ==
    IF \E i \in 1..Len(s) : s[i] = sep
    THEN SubSeq(s, 1, (CHOOSE i \in 1..Len(s) :
                          /\ s[i] = sep
                          /\ \A j \in 1..(i - 1) : s[j] # sep) - 1)
    ELSE s

\* s.split(sep): the list of the pieces between the separators
RECURSIVE Split(_, _)
Split(s, sep) ==
    LET head == FirstField(s, sep)
    IN  IF Len(head) = Len(s) THEN <<s>>
        ELSE <<head>> \o Split(DropFirst(s, Len(head) + 1), sep)

\* re.search("(.+?) (online|offline)", msg): the match starts at the
\* leftmost position from which it can succeed; group 1 is lazy, so it ends
\* at the first place followed by a space and a keyword.  The pattern is
\* not anchored, and nothing is required after the keyword.
MatchAt(msg, i, j) ==
    /\ i <= j
    /\ j + 2 <= Len(msg)
    /\ msg[j + 1] = SP
    /\ msg[j + 2] \in Keywords
RegexSearch(msg) ==
    IF \E i \in 1..Len(msg) : \E j \in 1..Len(msg) : MatchAt(msg, i, j)
    THEN LET i == CHOOSE a \in 1..Len(msg) :
                     /\ \E j \in 1..Len(msg) : MatchAt(msg, a, j)
                     /\ \A b \in 1..(a - 1) :
                           ~\E j \in 1..Len(msg) : MatchAt(msg, b, j)
             j == CHOOSE e \in 1..Len(msg) :
                     /\ MatchAt(msg, i, e)
                     /\ \A f \in 1..(e - 1) : ~MatchAt(msg, i, f)
         IN  [found |-> TRUE, group1 |-> SubSeq(msg, i, j),
              group2 |-> msg[j + 2]]
    ELSE [found |-> FALSE, group1 |-> <<>>, group2 |-> None]

\* line 37: `if not line or line == " ": continue`
Skipped(line) == line = <<>> \/ line = <<SP>>

\* lines 39-49 for one line that is not skipped
ParseLine(line) ==
    LET timestamp == FirstField(line, SP)
        msg1 == DropFirst(line, Len(timestamp) + 1)
        readable_timestamp == FirstField(msg1, SP)
        msg2 == DropFirst(msg1, Len(readable_timestamp) + 1)
        user == FirstField(msg2, SP)
        msg3 == DropFirst(msg2, Len(user) + 1)
        ip == FirstField(msg3, SP)
        msg4 == DropFirst(msg3, Len(ip) + 1)
        m == RegexSearch(msg4)
    IN  IF m.found
        THEN [err |-> None,
              record |-> [timestamp |-> timestamp,
                          readable_timestamp |-> readable_timestamp,
                          user |-> user,
                          isp |-> m.group1,
                          status |-> m.group2]]
        ELSE \* re.search returned None: None.group(1) raises
             [err |-> "AttributeError", record |-> None]

\* lines 29-35: read the text and split it at the newlines
ReadLogsSplit ==
    /\ rpc = "start"
    /\ lineQueue' = Split(text, NL)
    /\ rpc' = "loop"
    /\ UNCHANGED <<text, parsed, rerr>>
    /\ UNCHANGED <<pipeVars, plotVars, allocVars>>

\* lines 35-50: one iteration of the loop over the lines
ReadLogsLine ==
    /\ rpc = "loop"
    /\ lineQueue # <<>>
    /\ LET line == Head(lineQueue)
           r == ParseLine(line)
       IN  IF Skipped(line)
           THEN /\ lineQueue' = Tail(lineQueue)
                /\ UNCHANGED <<parsed, rerr, rpc>>
           ELSE IF r.err # None
           THEN /\ rerr' = r.err
                /\ rpc' = "done"
                /\ UNCHANGED <<parsed, lineQueue>>
           ELSE /\ parsed' = Append(parsed, r.record)
                /\ lineQueue' = Tail(lineQueue)
                /\ UNCHANGED <<rerr, rpc>>
    /\ UNCHANGED text
    /\ UNCHANGED <<pipeVars, plotVars, allocVars>>

\* line 51: return pd.DataFrame(records)
ReadLogsReturn ==
    /\ rpc = "loop"
    /\ lineQueue = <<>>
    /\ rpc' = "done"
    /\ UNCHANGED <<text, lineQueue, parsed, rerr>>
    /\ UNCHANGED <<pipeVars, plotVars, allocVars>>

\* s[1] \o sep \o s[2] \o ... : sep.join(s)
RECURSIVE Join(_, _)
Join(s, sep) ==
    IF s = <<>> THEN <<>>
    ELSE IF Len(s) = 1 THEN s[1]
    ELSE s[1] \o <<sep>> \o Join(Tail(s), sep)

\* lines without a record: empty, one space, two spaces, one tab
BlankLines == {<<>>, <<SP>>, <<SP, SP>>, <<TAB>>}

\* words of a free-text ISP: a plain word, the keywords as words, and a
\* word that begins with a keyword
IspWords == {<<"a">>, <<"online">>, <<"offline">>, <<"online", "a">>}

\* a line of the documented format
\* <timestamp> <readable_timestamp> <user> <ip> <isp> <online|offline>
RecordLine(isp, status) ==
    Join(<<<<"1">>, <<"2">>, <<"u">>, <<"9">>, Join(isp, SP), <<status>>>>,
         SP)

\* the lines a text is made of
InputLines ==
    BlankLines \cup
    UNION { { RecordLine(w, st) : w \in [1..n -> IspWords], st \in Keywords }
            : n \in 1..MaxIspWords }

InitParse ==
    /\ rpc = "start"
    /\ \E n \in 0..MaxLines : \E ls \in [1..n -> InputLines] :
          text = Join(ls, NL)
    /\ lineQueue = <<>>
    /\ parsed = <<>>
    /\ rerr = None
    /\ PipelineIdle
    /\ PlotsIdle
    /\ AllocIdle

NextParse ==
    \/ ReadLogsSplit
    \/ ReadLogsLine
    \/ ReadLogsReturn

SpecParse == InitParse /\ [][NextParse]_vars

----------------------------------------------------------------------------
(* Properties of read_logs *)

\* a line that is empty or made of whitespace only
IsBlank(line) == \A i \in 1..Len(line) : line[i] \in {SP, TAB}
NotBlank(line) == ~IsBlank(line)
NotSkipped(line) == ~Skipped(line)

\* the free text between the ip field and the keyword that ends the line
TrailingStatus(line) == line[Len(line)]
FreeTextIsp(line) ==
    LET f1 == FirstField(line, SP)
        m1 == DropFirst(line, Len(f1) + 1)
        f2 == FirstField(m1, SP)
        m2 == DropFirst(m1, Len(f2) + 1)
        f3 == FirstField(m2, SP)
        m3 == DropFirst(m2, Len(f3) + 1)
        f4 == FirstField(m3, SP)
        m4 == DropFirst(m3, Len(f4) + 1)
    IN  SubSeq(m4, 1, Len(m4) - 2)

\* C11: every empty or whitespace-only line is skipped: it produces no
\* record and raises no error, so a text whose other lines are all of the
\* documented format is read without error and yields exactly one record
\* per other line.
C11_BlankLinesSkipped ==
    LET ls == Split(text, NL)
        others == SelectSeq(ls, NotBlank)
    IN  (rpc = "done" /\ \A k \in 1..Len(others) :
                             ParseLine(others[k]).err = None)
           => /\ rerr = None
              /\ Len(parsed) = Len(others)
              /\ \A k \in 1..Len(others) :
                    parsed[k] = ParseLine(others[k]).record

\* C12: the status of every record is the keyword that ends its line and
\* its isp is all the free text between the ip field and that keyword,
\* also when the ISP contains a keyword as a word or as a word's prefix.
C12_TrailingKeyword ==
    LET accepted == SelectSeq(Split(text, NL), NotSkipped)
    IN  \A k \in 1..Len(parsed) :
            /\ parsed[k].status = TrailingStatus(accepted[k])
            /\ parsed[k].isp = FreeTextIsp(accepted[k])

----------------------------------------------------------------------------
(* Two concurrent invocations of temp_postgres_container with port unset.  *)
(* The operating system gives bind(('', 0)) any port nobody holds; a port  *)
(* is held by a bound probe socket or by a container that publishes it.    *)

\* port p is held by some socket or container other than those of i
HeldByOther(i, p) ==
    \E j \in Procs \ {i} : sock[j] = p \/ (started[j] /\ cport[j] = p)

\* lines 87-88: sock = socket.socket(); sock.bind(('', 0))
Bind(i) ==
    /\ cpc[i] = "bind"
    /\ \/ \E p \in Ports :
             /\ ~HeldByOther(i, p)
             /\ sock' = [sock EXCEPT ![i] = p]
             /\ cpc' = [cpc EXCEPT ![i] = "getsockname"]
       \/ \* socket()/bind() raises OSError, before the try block
          /\ cpc' = [cpc EXCEPT ![i] = "raised"]
          /\ UNCHANGED sock
    /\ UNCHANGED <<cport, started>>
    /\ UNCHANGED <<pipeVars, plotVars, parseVars>>

\* line 89: port = sock.getsockname()[1]
GetSockName(i) ==
    /\ cpc[i] = "getsockname"
    /\ cport' = [cport EXCEPT ![i] = sock[i]]
    /\ cpc' = [cpc EXCEPT ![i] = "close"]
    /\ UNCHANGED <<sock, started>>
    /\ UNCHANGED <<pipeVars, plotVars, parseVars>>

\* line 90: sock.close() releases the port before the container binds it
Close(i) ==
    /\ cpc[i] = "close"
    /\ sock' = [sock EXCEPT ![i] = NoPort]
    /\ cpc' = [cpc EXCEPT ![i] = "docker_run"]
    /\ UNCHANGED <<cport, started>>
    /\ UNCHANGED <<pipeVars, plotVars, parseVars>>

\* lines 107-127 without the returncode test of lines 123-124: the
\* invocation goes on to the readiness loop, whose probe of localhost:port
\* is answered by whoever publishes that port
RunUnchecked(i) ==
    /\ cpc[i] = "docker_run"
    /\ \/ /\ ~HeldByOther(i, cport[i])
          /\ started' = [started EXCEPT ![i] = TRUE]
          /\ cpc' = [cpc EXCEPT ![i] = "in_use"]
       \/ /\ HeldByOther(i, cport[i])
          /\ cpc' = [cpc EXCEPT ![i] = "in_use"]
          /\ UNCHANGED started
       \/ /\ cpc' = [cpc EXCEPT ![i] = "raised"]
          /\ UNCHANGED started
    /\ UNCHANGED <<sock, cport>>
    /\ UNCHANGED <<pipeVars, plotVars, parseVars>>

\* lines 107-160: docker run -p port:5432 and the readiness loop; docker
\* cannot publish a port that is held, exits non-zero, and lines 123-124
\* raise; the finally block then has no container to stop
Run(i) ==
    /\ cpc[i] = "docker_run"
    /\ \/ /\ ~HeldByOther(i, cport[i])
          /\ started' = [started EXCEPT ![i] = TRUE]
          /\ cpc' = [cpc EXCEPT ![i] = "in_use"]
       \/ \* port held, or any other failure of docker run or of the probes
          /\ cpc' = [cpc EXCEPT ![i] = "raised"]
          /\ UNCHANGED started
    /\ UNCHANGED <<sock, cport>>
    /\ UNCHANGED <<pipeVars, plotVars, parseVars>>

\* lines 162-183 after the body: docker stop and docker rm; when they fail
\* the container stays up and keeps the port
Release(i) ==
    /\ cpc[i] = "in_use"
    /\ \E s \in {FALSE, started[i]} :
          started' = [started EXCEPT ![i] = s]
    /\ cpc' = [cpc EXCEPT ![i] = "returned"]
    /\ UNCHANGED <<sock, cport>>
    /\ UNCHANGED <<pipeVars, plotVars, parseVars>>

InitPorts ==
    /\ cpc = [i \in Procs |-> "bind"]
    /\ sock = [i \in Procs |-> NoPort]
    /\ cport = [i \in Procs |-> NoPort]
    /\ started = [i \in Procs |-> FALSE]
    /\ PipelineIdle
    /\ PlotsIdle
    /\ ParseIdle

NextPorts ==
    \/ \E i \in Procs : Bind(i)
    \/ \E i \in Procs : GetSockName(i)
    \/ \E i \in Procs : Close(i)
    \/ \E i \in Procs : Run(i)
    \/ \E i \in Procs : Release(i)

SpecPorts == InitPorts /\ [][NextPorts]_vars

----------------------------------------------------------------------------
(* Properties of the concurrent port allocation *)

\* invocation i has read its port and has not ended yet
HasPort(i) == cport[i] # NoPort /\ cpc[i] \notin {"raised", "returned"}

\* C13 as stated: under any interleaving, two concurrent invocations never
\* obtain the same host port.
C13_AsStated ==
    (HasPort(1) /\ HasPort(2)) => cport[1] # cport[2]

\* C13 amended: two concurrent invocations never hold the same port at the
\* same time: two probe sockets that are bound together have different
\* ports, and two invocations that both got past docker run and the
\* readiness loop and are both in use have different ports.
C13_NoSharedHeldPort ==
    /\ (sock[1] # NoPort /\ sock[2] # NoPort) => sock[1] # sock[2]
    /\ (cpc[1] = "in_use" /\ cpc[2] = "in_use") => cport[1] # cport[2]
    /\ (started[1] /\ started[2]) => cport[1] # cport[2]

\* the race happened: both read the same port, one container got it and
\* the other invocation raised
C13_Witness ==
    \E i \in Procs : \E j \in Procs \ {i} :
        /\ cport[i] = cport[j]
        /\ cport[i] # NoPort
        /\ cpc[i] = "in_use"
        /\ started[i]
        /\ cpc[j] = "raised"

----------------------------------------------------------------------------
(* Further properties of the pipeline run (checked under Spec) *)

\* the step whose success each pipeline step needs
PrevOp(op) ==
    CASE op = "docker_run" -> "docker_check"
      [] op = "probe" -> "docker_run"
      [] op = "fetch" -> "probe"
      [] op = "stage" -> "fetch"
      [] op = "create_db" -> "stage"
      [] op = "restore" -> "create_db"
      [] op = "query" -> "restore"
      [] op = "drop_db" -> "query"

\* position of a pipeline step in the documented order
OpRank(op) ==
    CASE op = "alloc_port" -> 1
      [] op = "docker_check" -> 2
      [] op = "docker_run" -> 3
      [] op = "probe" -> 4
      [] op = "fetch" -> 5
      [] op = "stage" -> 6
      [] op = "create_db" -> 7
      [] op = "restore" -> 8
      [] op = "query" -> 9
      [] op = "drop_db" -> 10

\* C14: the steps of one run occur strictly in the order provision, fetch
\* and stage, create database, restore, query, drop database; a step is
\* issued only if the step before it succeeded (restore only after a
\* successful CREATE DATABASE, query only after a restore that exited 0);
\* and the result is returned only after the drop step.
C14_StrictSequence ==
    /\ \A i \in 1..Len(trace) : \A j \in 1..Len(trace) :
          (i < j /\ trace[i].op \in PipelineOps
                 /\ trace[j].op \in PipelineOps)
             => \/ OpRank(trace[i].op) < OpRank(trace[j].op)
                \/ (trace[i].op = "probe" /\ trace[j].op = "probe"
                    /\ trace[i].res = "connerr")
    /\ \A j \in 1..Len(trace) :
          trace[j].op \in PipelineOps \ {"alloc_port", "docker_check"}
             => \E i \in 1..(j - 1) : trace[i] = Step(PrevOp(trace[j].op),
                                                      "ok")
    /\ (result # None \/ outcome = "returned")
          => (Did("drop_db", "ok") /\ result = "rows")

C14_Witness ==
    /\ pc = "done"
    /\ outcome = "returned"
    /\ Did("probe", "connerr")
    /\ Did("restore", "ok")
    /\ Did("drop_db", "ok")

\* the lifecycle state of the container manager
Lifecycle ==
    CASE pc = "alloc" -> "NotStarted"
      [] pc \in {"docker_check", "docker_run", "probe"} -> "Starting"
      [] pc \in {"fetch", "stage", "create_db", "restore", "query",
                 "drop_db"} -> "InUse"
      [] pc \in {"finally", "docker_stop", "docker_rm", "exit"} -> "Stopping"
      [] pc = "done" -> "Stopped"

LifecycleRank(l) ==
    CASE l = "NotStarted" -> 0
      [] l = "Starting" -> 1
      [] l = "InUse" -> 3
      [] l = "Stopping" -> 4
      [] l = "Stopped" -> 5

\* the faults temp_postgres_container itself raises
ProvisionFaults == {"PortAlloc", "RuntimeUnavailable", "DockerCheckExec",
                    "ProvisionFailed", "DockerRunExec", "ProvisionTimeout",
                    "ProbeError"}

\* C15: the lifecycle never goes backwards; the connection info is yielded
\* (InUse) only by a successful readiness probe (Ready) that follows a
\* successful docker check and a docker run that exited zero; the manager's
\* own failures arise only before the yield; and when the polling loop ends
\* without a successful probe nothing is ever yielded.
C15_Lifecycle ==
    /\ [][/\ LifecycleRank(Lifecycle') >= LifecycleRank(Lifecycle)
          /\ (Lifecycle # "InUse" /\ Lifecycle' = "InUse")
                => (/\ Lifecycle = "Starting"
                    /\ trace' = Append(trace, Step("probe", "ok")))
          /\ (Lifecycle # "Starting" /\ Lifecycle' = "Starting")
                => Lifecycle = "NotStarted"
          /\ (Lifecycle # "Stopped" /\ Lifecycle' = "Stopped")
                => (Lifecycle = "Stopping" \/ exc' = "PortAlloc")]_vars
    /\ [](yielded <=> Did("probe", "ok"))
    /\ [](yielded => (/\ Did("docker_check", "ok")
                      /\ Did("docker_run", "ok")
                      /\ container_id # None))
    /\ [](exc \in ProvisionFaults => (~yielded /\ ~Issued("fetch")))
    /\ []((Issued("probe") /\ ~Did("probe", "ok") /\ pc # "probe")
             => (~yielded /\ exc \in ProvisionFaults))

C15_Witness ==
    /\ Lifecycle = "InUse"
    /\ yielded
    /\ Did("probe", "connerr")
    /\ Did("probe", "ok")

\* C16: every teardown issues docker stop and then docker rm; docker rm is
\* issued on every teardown, whatever docker stop did.
C16_StopThenRm ==
    (pc = "done" /\ Issued("teardown"))
       => \E i \in 1..Len(trace) : \E j \in 1..Len(trace) :
             /\ i < j
             /\ trace[i].op = "docker_stop"
             /\ trace[j].op = "docker_rm"

\* some teardown command exited non-zero, timed out or raised
TeardownCommandFailed ==
    \E i \in 1..Len(trace) :
        /\ trace[i].op \in {"docker_stop", "docker_rm"}
        /\ trace[i].res # "ok"

\* C17: whenever a teardown command failed a warning is logged and the
\* success message is not printed; the success message is printed only
\* when both commands succeeded.
C17_WarnOnFailure ==
    pc = "done" =>
        /\ TeardownCommandFailed => (warned /\ ~cleanedMsg)
        /\ cleanedMsg => (Did("docker_stop", "ok") /\ Did("docker_rm", "ok"))

\* C20: DROP DATABASE is issued only after create, restore and query all
\* succeeded, and is issued in every run where they did; when the restore
\* or the query fails after a successful CREATE DATABASE, no drop is issued
\* and the working database has not been dropped when the function exits.
C20_DropOnlyOnSuccess ==
    /\ Issued("drop_db")
          => (/\ Did("create_db", "ok")
              /\ Did("restore", "ok")
              /\ Did("query", "ok"))
    /\ (pc \in {"finally", "done"} \cup TeardownPcs
        /\ Did("create_db", "ok")
        /\ Did("restore", "ok")
        /\ Did("query", "ok"))
          => Issued("drop_db")
    /\ (Did("create_db", "ok") /\ ~Did("query", "ok")
        /\ pc \in {"finally", "done"} \cup TeardownPcs)
          => (~Issued("drop_db") /\ dbExists)

C20_Witness ==
    /\ pc = "finally"
    /\ Did("create_db", "ok")
    /\ Did("restore", "ok")
    /\ Did("query", "raise")
    /\ dbExists

----------------------------------------------------------------------------
(* Further properties of plots (checked under SpecPlots) *)

\* first index of the maximal run of equal statuses that contains index i
RunStart(s, i) ==
    CHOOSE a \in 1..i :
        /\ \A b \in a..i : s[b] = s[i]
        /\ (a = 1 \/ s[a - 1] # s[i])

\* the maximal contiguous runs of offline events of s, as <<first, last>>
OfflineRuns(s) ==
    {r \in (1..Len(s)) \X (1..Len(s)) :
        /\ r[1] <= r[2]
        /\ \A b \in r[1]..r[2] : s[b] = "offline"
        /\ (r[1] = 1 \/ s[r[1] - 1] # "offline")
        /\ (r[2] = Len(s) \/ s[r[2] + 1] # "offline")}

\* number of maximal offline runs of s of length at least n
RunsAtLeast(s, n) ==
    Cardinality({r \in OfflineRuns(s) : r[2] - r[1] + 1 >= n})

\* C18: the running streak of a user is k at the k-th event of each maximal
\* run of offline events and 0 at every online event; it restarts at every
\* status change.
C18_RunningStreak ==
    \A k \in 1..Len(streaks) :
        LET s == EntryStatus(streaks[k])
            rs == streaks[k].running_streak
        IN  /\ Len(rs) = Len(s)
            /\ \A i \in 1..Len(s) :
                  rs[i] = IF s[i] = "offline" THEN i - RunStart(s, i) + 1
                          ELSE 0

C18_Witness ==
    \E k \in 1..Len(streaks) :
        /\ EntryStatus(streaks[k])
              = <<"offline", "offline", "online", "offline">>
        /\ streaks[k].running_streak = <<1, 2, 0, 1>>

\* C19: for a user with at least one online event the result maps each
\* length n >= 1 to the number of maximal offline runs of length at least n
\* (lengths no run reaches are absent), so the counts never increase with n
\* and the count of 1 is the number of offline runs.
C19_CountsRunsAtLeast ==
    \A k \in 1..Len(streaks) :
        LET s == EntryStatus(streaks[k])
            c == streaks[k].counts
        IN  (\E i \in 1..Len(s) : s[i] = "online")
               => /\ streaks[k].err = None
                  /\ DOMAIN c = {n \in 1..Len(s) : RunsAtLeast(s, n) > 0}
                  /\ \A n \in DOMAIN c : c[n] = RunsAtLeast(s, n)
                  /\ \A n \in DOMAIN c :
                        n > 1 => ((n - 1) \in DOMAIN c /\ c[n - 1] >= c[n])
                  /\ 1 \in DOMAIN c => c[1] = Cardinality(OfflineRuns(s))

C19_Witness ==
    \E k \in 1..Len(streaks) :
        /\ EntryStatus(streaks[k])
              = <<"online", "offline", "offline", "online", "offline">>
        /\ streaks[k].err = None
        /\ DOMAIN streaks[k].counts = {1, 2}
        /\ streaks[k].counts[1] = 2
        /\ streaks[k].counts[2] = 1

====
